---- MODULE Spec2Model ----
\* A model of src/index.js: the comparison of the indices of two Algolia
\* applications ("mesos" and "kubernetes").  The process lists the indices of
\* both applications (cached in ./dist/apps), downloads the records of the
\* indices whose dataSize differs (cached in ./dist/indices), and reports the
\* indices whose two downloaded files differ.
\*
\* Strings that the program builds, splits or tests by suffix (index names,
\* file names, error texts) are sequences of one-character strings, so that
\* concatenation, split('-') and endsWith are computed, not assumed.
EXTENDS Integers, Sequences, FiniteSets, TLC

\* ---------------------------------------------------------------- bounds

\* Number of times the process is started (the cache on disk survives).
MaxRuns == 2
\* Longest list of indices the remote listIndexes call answers with.
MaxList == 2
\* Largest number of records the remote holds for one index.
MaxHits == 1

\* ------------------------------------------------------------- constants

\* hitsPerPage of browseAll: the largest number of hits in one 'result' event.
HitsPerPage == 1000
\* getDifferentIndices skips a kubernetes file smaller than this many bytes.
MinSize == 100

\* ---------------------------------------------------------------- strings

Mesos == <<"m", "e", "s", "o", "s">>
Kubernetes == <<"k", "u", "b", "e", "r", "n", "e", "t", "e", "s">>

\* Mutant of Apps: kubernetes is the first key of configs.
AppsKubernetesFirst == <<Kubernetes, Mesos>>

\* _.keys(this.configs): the applications, in the order of the object literal.
Apps == <<Mesos, Kubernetes>>
AppSet == {Apps[n] : n \in 1..Len(Apps)}

TmpSuffix == <<"_", "t", "m", "p">>
ErrorPrefix == <<"E", "R", "R", "O", "R", ":", " ">>

\* The value of a property that is not there (JavaScript's undefined); every
\* value the remote service sends is a natural number.
Undefined == -1

\* _.endsWith(string, target)
EndsWith(string, target) ==
    /\ Len(string) >= Len(target)
    /\ SubSeq(string, Len(string) - Len(target) + 1, Len(string)) = target

\* string.split(separator) for a one-character separator: the pieces between
\* the separators, empty pieces included.
RECURSIVE Split(_, _)
Split(string, separator) ==
    IF \A n \in 1..Len(string) : string[n] # separator
    THEN <<string>>
    ELSE LET at == CHOOSE n \in 1..Len(string) :
                       /\ string[n] = separator
                       /\ \A m \in 1..(n - 1) : string[m] # separator
         IN  <<SubSeq(string, 1, at - 1)>>
                 \o Split(SubSeq(string, at + 1, Len(string)), separator)

\* array.join(separator)
RECURSIVE Join(_, _)
Join(array, separator) ==
    IF Len(array) = 0 THEN <<>>
    ELSE IF Len(array) = 1 THEN array[1]
    ELSE array[1] \o <<separator>> \o Join(Tail(array), separator)

\* _.last(array) and _.dropRight(array, 1)
Last(array) == IF Len(array) = 0 THEN Undefined ELSE array[Len(array)]
DropRight(array) == IF Len(array) = 0 THEN <<>> ELSE SubSeq(array, 1, Len(array) - 1)

\* The elements of a sequence, and the sequences without a repeated element.
Range(seq) == {seq[n] : n \in 1..Len(seq)}
SeqsUpTo(S, max) == UNION {[1..n -> S] : n \in 0..max}

\* ----------------------------------------------------- the remote service

\* Names of indices the applications may hold; the last one is the temporary
\* index of a crawl in progress.
IndexNames == {<<"a">>, <<"a", "-", "b">>, <<"a", "_", "t", "m", "p">>}
DataSizes == {1, 2}

\* One item of the answer of listIndexes.
Item(name, dataSize) ==
    [name |-> name, entries |-> 1, dataSize |-> dataSize,
     fileSize |-> dataSize + 1, updatedAt |-> 0]

\* The sequences of items with different names, of at most max items.
ResponsesOf(items, max) ==
    {answer \in SeqsUpTo(items, max) :
        \A m, n \in 1..Len(answer) :
            m # n => answer[m].name # answer[n].name}

\* The answers of listIndexes to the pipeline: one index changes its size,
\* the others are there or not.
ListResponses ==
    ResponsesOf({Item(<<"a">>, 1), Item(<<"a">>, 2), Item(<<"a", "-", "b">>, 1),
                 Item(<<"a", "_", "t", "m", "p">>, 1)}, MaxList)

\* A string of which the program only moves the whole value around (the text
\* of a record): its identity and its length in bytes.
Text(id, len) == [text |-> id, length |-> len]

\* The records an index may hold.  RecX and RecY have the same sort keys and
\* differ in their content only.
RecX ==
    [objectID |-> 1, url |-> 1, hierarchy |-> [lvl0 |-> 1],
     weight |-> [position |-> 1], content |-> Text(1, 90)]
RecY ==
    [objectID |-> 2, url |-> 1, hierarchy |-> [lvl0 |-> 1],
     weight |-> [position |-> 1], content |-> Text(2, 90)]
\* Records that differ in a sort key, or lack one.
RecNoUrl ==
    [objectID |-> 4, hierarchy |-> [lvl0 |-> 1],
     weight |-> [position |-> 1], content |-> Text(3, 20)]
RecLvl ==
    [objectID |-> 5, url |-> 1, hierarchy |-> [lvl0 |-> 2],
     weight |-> [position |-> 0], content |-> Text(4, 20)]
RecNoPosition ==
    [objectID |-> 6, url |-> 1, hierarchy |-> [lvl0 |-> 1], content |-> Text(5, 20)]

\* The sequences of records with different objectIDs, of at most max records.
HitsOf(records, max) ==
    {hits \in SeqsUpTo(records, max) :
        \A m, n \in 1..Len(hits) : m # n => hits[m].objectID # hits[n].objectID}

\* The records of one index of the pipeline, in the order the remote service
\* sends them.
RemoteHits == HitsOf({RecX, RecY}, MaxHits)

\* The messages of the errors of the remote service; the second one is 93
\* characters long.
ShortMessage == <<"d", "o", "w", "n">>
LongMessage == [n \in 1..93 |-> "x"]
ErrorMessages == {ShortMessage, LongMessage}

\* ------------------------------------------------------- the normalisation

\* _.get(object, path) for the paths of the sort: 'url', or two properties
\* deep ('hierarchy.lvl0'); undefined when a property on the way is missing.
Get(object, path) ==
    IF path[1] \notin DOMAIN object THEN Undefined
    ELSE IF Len(path) = 1 THEN object[path[1]]
    ELSE IF path[2] \notin DOMAIN object[path[1]] THEN Undefined
    ELSE object[path[1]][path[2]]

\* _.omit(record, ['objectID'])
OmitObjectID(record) == [f \in (DOMAIN record) \ {"objectID"} |-> record[f]]

\* The iteratees of the _.sortBy of getRecordsFromIndex.
SortKeys ==
    << <<"url">>,
       <<"hierarchy", "lvl0">>, <<"hierarchy", "lvl1">>, <<"hierarchy", "lvl2">>,
       <<"hierarchy", "lvl3">>, <<"hierarchy", "lvl4">>, <<"hierarchy", "lvl5">>,
       <<"hierarchy", "lvl6">>,
       <<"weight", "position">> >>

\* Mutant of CompareAscending: an undefined value sorts before every defined
\* one.
CompareAscendingUndefinedFirst(value, other) ==
    IF value = other THEN 0
    ELSE IF value = Undefined THEN -1
    ELSE IF other = Undefined THEN 1
    ELSE IF value > other THEN 1
    ELSE -1

\* lodash's compareAscending on numbers and undefined: 1 when value sorts
\* after other.  An undefined value sorts after every defined one.
CompareAscending(value, other) ==
    IF value = other THEN 0
    ELSE IF value = Undefined THEN 1
    ELSE IF other = Undefined THEN -1
    ELSE IF value > other THEN 1
    ELSE -1

\* lodash's compareMultiple: the first iteratee on which the two records
\* differ decides; records equal on all of them keep the order of their places
\* in the array (object.index - other.index).
RECURSIVE CompareFrom(_, _, _)
CompareFrom(object, other, k) ==
    IF k > Len(SortKeys) THEN object.index - other.index
    ELSE LET result == CompareAscending(Get(object.value, SortKeys[k]),
                                        Get(other.value, SortKeys[k]))
         IN  IF result # 0 THEN result ELSE CompareFrom(object, other, k + 1)

CompareMultiple(object, other) == CompareFrom(object, other, 1)

\* Insertion of one indexed record into a sorted array of indexed records.
RECURSIVE Insert(_, _)
Insert(sorted, object) ==
    IF Len(sorted) = 0 THEN <<object>>
    ELSE IF CompareMultiple(object, Head(sorted)) < 0 THEN <<object>> \o sorted
    ELSE <<Head(sorted)>> \o Insert(Tail(sorted), object)

RECURSIVE SortIndexed(_, _, _)
SortIndexed(array, n, sorted) ==
    IF n > Len(array) THEN sorted
    ELSE SortIndexed(array, n + 1, Insert(sorted, [value |-> array[n], index |-> n]))

\* _.sortBy(array, SortKeys)
SortBy(array) ==
    LET sorted == SortIndexed(array, 1, <<>>)
    IN  [n \in 1..Len(sorted) |-> sorted[n].value]

\* The 'end' handler's chain: map(omit objectID), then sortBy.
SortedResults(result) ==
    SortBy([n \in 1..Len(result) |-> OmitObjectID(result[n])])

\* --------------------------------------------------------------- the files

\* The contents of a file: what writeJson wrote (a JSON value) or what write
\* wrote (a text).
JsonFile(value) == [kind |-> "json", value |-> value]
TextFile(text) == [kind |-> "text", text |-> text]

\* Bytes of a number below 1000 in JSON.
NumberBytes(n) == IF n < 10 THEN 1 ELSE IF n < 100 THEN 2 ELSE 3

\* Bytes of one property of a record in JSON: "name":value
PropertyBytes(object, f) ==
    Len(f) + 3 +
    ( IF f = "content" THEN object[f].length + 2
      ELSE IF f = "hierarchy" THEN 2 + Len("lvl0") + 3 + NumberBytes(object[f].lvl0)
      ELSE IF f = "weight" THEN 2 + Len("position") + 3 + NumberBytes(object[f].position)
      ELSE NumberBytes(object[f]) )

RECURSIVE PropertiesBytes(_, _)
PropertiesBytes(object, fields) ==
    IF fields = {} THEN 0
    ELSE LET f == CHOOSE g \in fields : TRUE
         IN  PropertyBytes(object, f) + PropertiesBytes(object, fields \ {f})

\* Bytes of a record in JSON: the braces, the properties, the commas between.
ObjectBytes(object) ==
    2 + PropertiesBytes(object, DOMAIN object)
      + (IF DOMAIN object = {} THEN 0 ELSE Cardinality(DOMAIN object) - 1)

RECURSIVE ArrayBytes(_)
ArrayBytes(array) ==
    IF Len(array) = 0 THEN 0
    ELSE ObjectBytes(Head(array)) + ArrayBytes(Tail(array))

\* fs.statSync(path).size of a file.
FileSize(file) ==
    IF file.kind = "text" THEN Len(file.text)
    ELSE 2 + ArrayBytes(file.value)
           + (IF Len(file.value) = 0 THEN 0 ELSE Len(file.value) - 1)

\* `./dist/indices/${indexName}-${appName}.json`, without directory and
\* extension.
FilePath(indexName, appName) == indexName \o <<"-">> \o appName

\* ----------------------------------------------------- the index lists

\* Mutant of IndexData: the temporary indices are kept.
IndexDataUnfiltered(items) ==
    [n \in 1..Len(items) |->
         [name |-> items[n].name,
          recordCount |-> items[n].entries,
          dataSize |-> items[n].dataSize,
          fileSize |-> items[n].fileSize,
          lastUpdate |-> items[n].updatedAt]]

\* The chain of downloadIndexList on the answer of listIndexes: the fields
\* kept of each item, without the temporary indices.
RECURSIVE IndexData(_)
IndexData(items) ==
    IF Len(items) = 0 THEN <<>>
    ELSE LET index == [name |-> Head(items).name,
                       recordCount |-> Head(items).entries,
                       dataSize |-> Head(items).dataSize,
                       fileSize |-> Head(items).fileSize,
                       lastUpdate |-> Head(items).updatedAt]
         IN  IF EndsWith(index.name, TmpSuffix)
             THEN IndexData(Tail(items))
             ELSE <<index>> \o IndexData(Tail(items))

\* An object as the sequence of its <<key, value>> entries in insertion order.
HasKey(object, key) == \E n \in 1..Len(object) : object[n][1] = key
Lookup(object, key) ==
    IF HasKey(object, key)
    THEN object[CHOOSE n \in 1..Len(object) : object[n][1] = key][2]
    ELSE Undefined
Assign(object, key, value) ==
    IF HasKey(object, key)
    THEN [n \in 1..Len(object) |->
              IF object[n][1] = key THEN <<key, value>> ELSE object[n]]
    ELSE Append(object, <<key, value>>)

\* convertList of getIndicesWithDifferences: result[index.name] = index.dataSize
RECURSIVE ConvertInto(_, _)
ConvertInto(result, list) ==
    IF Len(list) = 0 THEN result
    ELSE ConvertInto(Assign(result, Head(list).name, Head(list).dataSize), Tail(list))

ConvertList(list) == ConvertInto(<<>>, list)

\* The map of getIndicesWithDifferences over mesosList, and compact: the names
\* whose size on kubernetes is not the size on mesos; compact drops the nulls
\* and the empty name.
RECURSIVE NamesWithDifferences(_, _)
NamesWithDifferences(mesosList, kubernetesList) ==
    IF Len(mesosList) = 0 THEN <<>>
    ELSE LET name == Head(mesosList)[1]
             size == Head(mesosList)[2]
             kubernetesSize == Lookup(kubernetesList, name)
             rest == NamesWithDifferences(Tail(mesosList), kubernetesList)
         IN  IF kubernetesSize # size /\ Len(name) > 0
             THEN <<name>> \o rest
             ELSE rest

\* Mutant of IndicesWithDifferences: the names of kubernetes are the ones
\* gone through.
IndicesWithDifferencesSwapped(mesosIndices, kubernetesIndices) ==
    NamesWithDifferences(ConvertList(kubernetesIndices), ConvertList(mesosIndices))

IndicesWithDifferences(mesosIndices, kubernetesIndices) ==
    NamesWithDifferences(ConvertList(mesosIndices), ConvertList(kubernetesIndices))

\* ------------------------------------------------------------ the report

\* Mutant of ParsePath: the name of the index is the first piece.
ParsePathFirstPiece(basename) ==
    LET split == Split(basename, "-")
    IN  [type |-> Last(split), indexName |-> Head(split)]

\* The map of getDifferentIndices: a file name split at '-' into the name of
\* the index and the type (the last piece).
ParsePath(basename) ==
    LET split == Split(basename, "-")
    IN  [type |-> Last(split), indexName |-> Join(DropRight(split), "-")]

\* The transform of getDifferentIndices: the names of one type.
NamesOfType(paths, type) ==
    {ParsePath(p).indexName : p \in {q \in paths : ParsePath(q).type = type}}

\* fs.statSync: a new Stats object at every call, with the size of the file.
StatSync(disk, path, object) == [object |-> object, size |-> FileSize(disk[path])]

\* kubeSize === mesosSize: two objects are equal when they are one object.
StrictEquals(kubeSize, mesosSize) == kubeSize.object = mesosSize.object

\* Mutant of IsSkipped: the size of the mesos file is the one held against
\* the threshold.
IsSkippedOnMesos(disk, indexName) ==
    LET kubeSize == StatSync(disk, FilePath(indexName, Kubernetes), 1)
        mesosSize == StatSync(disk, FilePath(indexName, Mesos), 2)
    IN  mesosSize.size < MinSize \/ StrictEquals(kubeSize, mesosSize)

\* The test of getDifferentIndices on one name of the kubernetes group.
IsSkipped(disk, indexName) ==
    LET kubeSize == StatSync(disk, FilePath(indexName, Kubernetes), 1)
        mesosSize == StatSync(disk, FilePath(indexName, Mesos), 2)
    IN  kubeSize.size < MinSize \/ StrictEquals(kubeSize, mesosSize)

\* statSync throws on a path that is no file.
StatThrows(disk) ==
    \E indexName \in NamesOfType(DOMAIN disk, Kubernetes) :
        /\ Len(indexName) > 0
        /\ \/ FilePath(indexName, Kubernetes) \notin DOMAIN disk
           \/ FilePath(indexName, Mesos) \notin DOMAIN disk

\* The value of getDifferentIndices, as a set: glob lists the files in an
\* order the program does not choose.
DifferentIndices(disk) ==
    {indexName \in NamesOfType(DOMAIN disk, Kubernetes) :
        Len(indexName) > 0 /\ ~IsSkipped(disk, indexName)}

\* --------------------------------------------------------------- the state

VARIABLES
    pc,             \* where the process is: "idle" before the first start
    run,            \* number of starts of the process so far
    client,         \* configs[app].client is set (per process)
    appFiles,       \* ./dist/apps: application -> the list written
    files,          \* ./dist/indices: path -> the file written
    lists,          \* the values downloadIndexList returned to this process
    response,       \* the answers of listIndexes that getIndicesWithDifferences
                    \* is working on, per application
    indices,        \* the value of getIndicesWithDifferences
    i, j,           \* the pair at hand: indices[i] on Apps[j]
    browser,        \* the stream of browseAll: its state, the hits to come
    result,         \* the hits the 'result' handler has gathered
    promise,        \* the promise of getRecordsFromIndex
    report,         \* the list main printed
    listInvocations,  \* history: calls of downloadIndexList per application
    listCalls,      \* history: calls of listIndexes per application
    listFailures,   \* history: failed calls of listIndexes per application
    appWrites,      \* history: writes of ./dist/apps per application
    browseCalls,    \* history: calls of browseAll per path
    fileWrites,     \* history: writes of ./dist/indices per path
    runCalls,       \* this run: calls of listIndexes, and those that failed
    runBrowsed,     \* this run: the paths browseAll was called for, in order
    runFetch,       \* this run: path -> how getRecordsFromIndex ended
    runWrites,      \* this run: the paths written, in order
    cleanStart,     \* this run started with ./dist/indices empty
    completed       \* history: runs that printed their report

vars ==
    <<pc, run, client, appFiles, files, lists, response, indices, i, j, browser,
      result, promise, report, listInvocations, listCalls, listFailures, appWrites,
      browseCalls, fileWrites, runCalls, runBrowsed, runFetch, runWrites,
      cleanStart, completed>>

processVars == <<client, lists, response, indices, i, j, browser, result, promise, report>>
diskVars == <<appFiles, files>>
listHistory == <<listInvocations, listCalls, listFailures, appWrites>>
fileHistory == <<browseCalls, fileWrites>>
runHistory == <<runCalls, runBrowsed, runFetch, runWrites, cleanStart>>

AllPaths == {FilePath(n, a) : n \in IndexNames, a \in AppSet}

NoBrowser == [state |-> "none", pending |-> <<>>]
NoPromise == [status |-> "none", records |-> <<>>, message |-> <<>>]
NoReport == [printed |-> FALSE, diff |-> {}]
NoResponse == [a \in AppSet |-> <<>>]
Empty == [x \in {} |-> 0]
NoCalls == [list |-> 0, listFailed |-> 0]

\* A file system with one more file.
WriteFile(dir, path, file) ==
    [p \in (DOMAIN dir) \cup {path} |-> IF p = path THEN file ELSE dir[p]]

\* The state of a process that has just started.
Fresh ==
    /\ client = [a \in AppSet |-> FALSE]
    /\ lists = [a \in AppSet |-> <<>>]
    /\ response = NoResponse
    /\ indices = <<>>
    /\ i = 1
    /\ j = 1
    /\ browser = NoBrowser
    /\ result = <<>>
    /\ promise = NoPromise
    /\ report = NoReport

Init ==
    /\ pc = "idle"
    /\ run = 0
    /\ Fresh
    /\ appFiles = Empty
    /\ files = Empty
    /\ listInvocations = [a \in AppSet |-> 0]
    /\ listCalls = [a \in AppSet |-> 0]
    /\ listFailures = [a \in AppSet |-> 0]
    /\ appWrites = [a \in AppSet |-> 0]
    /\ browseCalls = [p \in AllPaths |-> 0]
    /\ fileWrites = [p \in AllPaths |-> 0]
    /\ runCalls = NoCalls
    /\ runBrowsed = <<>>
    /\ runFetch = Empty
    /\ runWrites = <<>>
    /\ cleanStart = TRUE
    /\ completed = 0

Running == pc \notin {"idle", "done", "aborted", "killed"}

\* ------------------------------------------------------------- the actions

\* The process is started (again): main calls downloadIndicesWithDifferences,
\* which calls getIndicesWithDifferences, which asks for the list of mesos.
Start ==
    /\ ~Running
    /\ run < MaxRuns
    /\ run' = run + 1
    /\ pc' = "listMesos"
    /\ client' = [a \in AppSet |-> FALSE]
    /\ lists' = [a \in AppSet |-> <<>>]
    /\ response' = NoResponse
    /\ indices' = <<>>
    /\ i' = 1
    /\ j' = 1
    /\ browser' = NoBrowser
    /\ result' = <<>>
    /\ promise' = NoPromise
    /\ report' = NoReport
    /\ runCalls' = NoCalls
    /\ runBrowsed' = <<>>
    /\ runFetch' = Empty
    /\ runWrites' = <<>>
    /\ cleanStart' = (DOMAIN files = {})
    /\ UNCHANGED <<diskVars, listHistory, fileHistory, completed>>

\* getClient: the client of the application is made at its first use.
GetClient(appName) == client' = [client EXCEPT ![appName] = TRUE]

\* Mutant of DownloadIndexListCached: the file is there and the list is asked
\* for and written again.
DownloadIndexListAgain(appName, next) ==
    /\ appName \in DOMAIN appFiles
    /\ \E items \in ListResponses :
           LET indexData == IndexData(items)
           IN  /\ response' = [response EXCEPT ![appName] = items]
               /\ appFiles' = WriteFile(appFiles, appName, JsonFile(indexData))
               /\ lists' = [lists EXCEPT ![appName] = indexData]
    /\ GetClient(appName)
    /\ listInvocations' = [listInvocations EXCEPT ![appName] = @ + 1]
    /\ listCalls' = [listCalls EXCEPT ![appName] = @ + 1]
    /\ appWrites' = [appWrites EXCEPT ![appName] = @ + 1]
    /\ runCalls' = [runCalls EXCEPT !.list = @ + 1]
    /\ pc' = next
    /\ UNCHANGED listFailures

\* downloadIndexList(appName) when the file is there: the list read.
DownloadIndexListCached(appName, next) ==
    /\ appName \in DOMAIN appFiles
    /\ lists' = [lists EXCEPT ![appName] = appFiles[appName].value]
    /\ listInvocations' = [listInvocations EXCEPT ![appName] = @ + 1]
    /\ pc' = next
    /\ UNCHANGED <<client, appFiles, response, listCalls, listFailures, appWrites,
                   runCalls>>

\* downloadIndexList(appName) when the file is not there and listIndexes
\* answers: the list is written and returned.
DownloadIndexListRemote(appName, next) ==
    /\ appName \notin DOMAIN appFiles
    /\ \E items \in ListResponses :
           LET indexData == IndexData(items)
           IN  /\ response' = [response EXCEPT ![appName] = items]
               /\ appFiles' = WriteFile(appFiles, appName, JsonFile(indexData))
               /\ lists' = [lists EXCEPT ![appName] = indexData]
    /\ GetClient(appName)
    /\ listInvocations' = [listInvocations EXCEPT ![appName] = @ + 1]
    /\ listCalls' = [listCalls EXCEPT ![appName] = @ + 1]
    /\ appWrites' = [appWrites EXCEPT ![appName] = @ + 1]
    /\ runCalls' = [runCalls EXCEPT !.list = @ + 1]
    /\ pc' = next
    /\ UNCHANGED listFailures

\* Mutant of DownloadIndexListFailed: the error is caught and an empty list
\* returned.
DownloadIndexListSwallowed(appName, next) ==
    /\ appName \notin DOMAIN appFiles
    /\ GetClient(appName)
    /\ listInvocations' = [listInvocations EXCEPT ![appName] = @ + 1]
    /\ listCalls' = [listCalls EXCEPT ![appName] = @ + 1]
    /\ listFailures' = [listFailures EXCEPT ![appName] = @ + 1]
    /\ runCalls' = [runCalls EXCEPT !.list = @ + 1, !.listFailed = @ + 1]
    /\ lists' = [lists EXCEPT ![appName] = <<>>]
    /\ pc' = next
    /\ UNCHANGED <<appFiles, response, appWrites>>

\* downloadIndexList(appName) when the file is not there and listIndexes
\* fails: nothing catches the error, neither here nor in the callers (next is
\* where a caller would go on), and the process ends.
DownloadIndexListFailed(appName, next) ==
    /\ appName \notin DOMAIN appFiles
    /\ GetClient(appName)
    /\ listInvocations' = [listInvocations EXCEPT ![appName] = @ + 1]
    /\ listCalls' = [listCalls EXCEPT ![appName] = @ + 1]
    /\ listFailures' = [listFailures EXCEPT ![appName] = @ + 1]
    /\ runCalls' = [runCalls EXCEPT !.list = @ + 1, !.listFailed = @ + 1]
    /\ pc' = "aborted"
    /\ UNCHANGED <<appFiles, lists, response, appWrites>>

DownloadIndexList(appName, next) ==
    \/ DownloadIndexListCached(appName, next)
    \/ DownloadIndexListRemote(appName, next)
    \/ DownloadIndexListFailed(appName, next)

\* getIndicesWithDifferences, first await: the list of mesos.
ListMesos ==
    /\ pc = "listMesos"
    /\ DownloadIndexList(Mesos, "listKubernetes")
    /\ UNCHANGED <<run, files, indices, i, j, browser, result, promise, report,
                   fileHistory, runBrowsed, runFetch, runWrites, cleanStart,
                   completed>>

\* getIndicesWithDifferences, second await: the list of kubernetes.
ListKubernetes ==
    /\ pc = "listKubernetes"
    /\ DownloadIndexList(Kubernetes, "differences")
    /\ UNCHANGED <<run, files, indices, i, j, browser, result, promise, report,
                   fileHistory, runBrowsed, runFetch, runWrites, cleanStart,
                   completed>>

\* Where the two pMap go after a pair: the next application of the index, or
\* the first application of the next index, or past the last index.
PcAt(names, index) == IF index > Len(names) THEN "report" ELSE "pair"

\* Mutant of NextPair: the applications are the outer loop, the indices the
\* inner one.
NextPairByApp ==
    /\ i' = IF i < Len(indices) THEN i + 1 ELSE 1
    /\ j' = IF i < Len(indices) THEN j ELSE j + 1
    /\ pc' = IF j' > Len(Apps) THEN "report" ELSE "pair"

NextPair ==
    /\ i' = IF j < Len(Apps) THEN i ELSE i + 1
    /\ j' = IF j < Len(Apps) THEN j + 1 ELSE 1
    /\ pc' = PcAt(indices, i')

\* The rest of getIndicesWithDifferences, and downloadIndicesWithDifferences
\* up to the first pair.
Differences ==
    /\ pc = "differences"
    /\ indices' = IndicesWithDifferences(lists[Mesos], lists[Kubernetes])
    /\ i' = 1
    /\ j' = 1
    /\ response' = NoResponse
    /\ pc' = PcAt(indices', 1)
    /\ UNCHANGED <<run, client, lists, browser, result, promise, report, diskVars,
                   listHistory, fileHistory, runHistory, completed>>

\* The path of the pair at hand.
PairPath == FilePath(indices[i], Apps[j])

\* The mapper of the inner pMap when the file of the pair is there: a tick.
PairCached ==
    /\ pc = "pair"
    /\ PairPath \in DOMAIN files
    /\ NextPair
    /\ UNCHANGED <<run, client, lists, response, indices, browser, result, promise,
                   report, diskVars, listHistory, fileHistory, runHistory, completed>>

\* getRecordsFromIndex up to the browseAll call, on an index of which the
\* remote service holds hits.
BrowseAll(appName, hits) ==
    /\ GetClient(appName)
    /\ browser' = [state |-> "open", pending |-> hits]
    /\ result' = <<>>
    /\ promise' = [NoPromise EXCEPT !.status = "pending"]

\* The mapper of the inner pMap up to its await of getRecordsFromIndex, on an
\* index that holds one of the given sequences of hits.
Browse(remote) ==
    /\ pc = "pair"
    /\ \E hits \in remote : BrowseAll(Apps[j], hits)
    /\ browseCalls' = [browseCalls EXCEPT ![PairPath] = @ + 1]
    /\ runBrowsed' = Append(runBrowsed, PairPath)
    /\ pc' = "browsing"
    /\ UNCHANGED <<run, lists, response, indices, i, j, report, diskVars, listHistory,
                   fileWrites, runCalls, runFetch, runWrites, cleanStart,
                   completed>>

\* Mutant of PairBrowse: the test for the file is lost.
PairBrowseUnchecked ==
    /\ pc = "pair"
    /\ Browse(RemoteHits)

\* Mutant of PairBrowse: a file that holds an error marker does not count as
\* the file of the pair.
PairBrowseRetry ==
    /\ pc = "pair"
    /\ \/ PairPath \notin DOMAIN files
       \/ PairPath \in DOMAIN files /\ files[PairPath].kind = "text"
    /\ Browse(RemoteHits)

\* The mapper of the inner pMap when the file of the pair is not there.
PairBrowse ==
    /\ pc = "pair"
    /\ PairPath \notin DOMAIN files
    /\ Browse(RemoteHits)

Min(a, b) == IF a < b THEN a ELSE b

\* Mutant of OnResult: the hits of the page take the place of the hits
\* gathered so far.
OnResultReplaced ==
    /\ browser.state = "open"
    /\ \E n \in 1..Min(Len(browser.pending), HitsPerPage) :
           /\ result' = SubSeq(browser.pending, 1, n)
           /\ browser' = [browser EXCEPT
                  !.pending = SubSeq(browser.pending, n + 1, Len(browser.pending))]
    /\ UNCHANGED promise

\* browser.on('result'): a page of at least one and at most hitsPerPage hits.
OnResult ==
    /\ browser.state = "open"
    /\ \E n \in 1..Min(Len(browser.pending), HitsPerPage) :
           /\ result' = result \o SubSeq(browser.pending, 1, n)
           /\ browser' = [browser EXCEPT
                  !.pending = SubSeq(browser.pending, n + 1, Len(browser.pending))]
    /\ UNCHANGED promise

\* browser.on('end'), after the last page.
OnEnd ==
    /\ browser.state = "open"
    /\ Len(browser.pending) = 0
    /\ browser' = [browser EXCEPT !.state = "ended"]
    /\ promise' = [NoPromise EXCEPT !.status = "resolved",
                                    !.records = SortedResults(result)]
    /\ UNCHANGED result

\* Mutant of OnError: the promise is resolved with the hits gathered so far.
OnErrorPartial ==
    /\ browser.state = "open"
    /\ promise' = [NoPromise EXCEPT !.status = "resolved",
                                    !.records = SortedResults(result)]
    /\ browser' = [state |-> "failed", pending |-> <<>>]
    /\ UNCHANGED result

\* browser.on('error'), before the end: the stream stops, the hits to come are
\* not sent.
OnError ==
    /\ browser.state = "open"
    /\ \E message \in ErrorMessages :
           promise' = [NoPromise EXCEPT !.status = "rejected", !.message = message]
    /\ browser' = [state |-> "failed", pending |-> <<>>]
    /\ UNCHANGED result

\* The events of the stream while the mapper awaits getRecordsFromIndex.
Browsing ==
    /\ pc = "browsing"
    /\ \/ OnResult /\ pc' = "browsing"
       \/ OnEnd /\ pc' = "settled"
       \/ OnError /\ pc' = "settled"
    /\ UNCHANGED <<run, client, lists, response, indices, i, j, report, diskVars,
                   listHistory, fileHistory, runHistory, completed>>

\* How the call of getRecordsFromIndex ended, for the history: the hits of a
\* stream that ended, the message of a stream that failed.
Fetched ==
    [ok |-> promise.status = "resolved",
     hits |-> IF promise.status = "resolved" THEN result ELSE <<>>,
     message |-> promise.message]

\* The try block after the await: writeJson(filePath, records).
PairWriteJson ==
    /\ pc = "settled"
    /\ promise.status = "resolved"
    /\ files' = WriteFile(files, PairPath, JsonFile(promise.records))

\* Mutant of PairWriteError: the catch block writes nothing.
PairWriteErrorLost ==
    /\ pc = "settled"
    /\ promise.status = "rejected"
    /\ files' = files

\* The catch block: write(filePath, `ERROR: ${error.message}`).
PairWriteError ==
    /\ pc = "settled"
    /\ promise.status = "rejected"
    /\ files' = WriteFile(files, PairPath, TextFile(ErrorPrefix \o promise.message))

\* The mapper of the inner pMap after getRecordsFromIndex has settled.
PairSettled ==
    /\ \/ PairWriteJson
       \/ PairWriteError
    /\ fileWrites' = [fileWrites EXCEPT ![PairPath] = @ + 1]
    /\ runFetch' = WriteFile(runFetch, PairPath, Fetched)
    /\ runWrites' = Append(runWrites, PairPath)
    /\ browser' = NoBrowser
    /\ result' = <<>>
    /\ promise' = NoPromise
    /\ NextPair
    /\ UNCHANGED <<run, client, lists, response, indices, report, appFiles,
                   listHistory, browseCalls, runCalls, runBrowsed, cleanStart, completed>>

\* main after downloadIndicesWithDifferences: getDifferentIndices, printed.
\* A statSync that throws ends the process without a report.
Report ==
    /\ pc = "report"
    /\ IF StatThrows(files)
       THEN /\ pc' = "aborted"
            /\ UNCHANGED <<report, completed>>
       ELSE /\ pc' = "done"
            /\ report' = [printed |-> TRUE, diff |-> DifferentIndices(files)]
            /\ completed' = completed + 1
    /\ UNCHANGED <<run, client, lists, response, indices, i, j, browser, result,
                   promise, diskVars, listHistory, fileHistory, runHistory>>

\* The process is killed while it waits (the files stay).
Interrupt ==
    /\ Running
    /\ pc' = "killed"
    /\ UNCHANGED <<run, processVars, diskVars, listHistory, fileHistory, runHistory,
                   completed>>

Next ==
    \/ Start
    \/ ListMesos
    \/ ListKubernetes
    \/ Differences
    \/ PairCached
    \/ PairBrowse
    \/ Browsing
    \/ PairSettled
    \/ Report

\* The process, started again after each of its ends.
Spec == Init /\ [][Next]_vars

\* The process, which may also be killed at any of its awaits.
NextInterrupted ==
    \/ Next
    \/ Interrupt

SpecInterrupted == Init /\ [][NextInterrupted]_vars

\* ------------------------------------------- getRecordsFromIndex on its own

\* Largest number of records of an index in the specification of the records.
MaxRecords == 3

\* The records of one index there, in the order the remote service sends them.
RecordHits == HitsOf({RecX, RecY, RecNoUrl, RecLvl, RecNoPosition}, MaxRecords)

\* The process after its lists: index "a" has a size on mesos and another on
\* kubernetes, and nothing is downloaded yet.
RecordsInit ==
    /\ pc = "pair"
    /\ run = 1
    /\ client = [a \in AppSet |-> TRUE]
    /\ lists = [a \in AppSet |->
                   IndexData(<<Item(<<"a">>, IF a = Mesos THEN 1 ELSE 2)>>)]
    /\ appFiles = [a \in AppSet |-> JsonFile(lists[a])]
    /\ response = NoResponse
    /\ indices = <<<<"a">>>>
    /\ i = 1
    /\ j = 1
    /\ browser = NoBrowser
    /\ result = <<>>
    /\ promise = NoPromise
    /\ report = NoReport
    /\ files = Empty
    /\ listInvocations = [a \in AppSet |-> 1]
    /\ listCalls = [a \in AppSet |-> 1]
    /\ listFailures = [a \in AppSet |-> 0]
    /\ appWrites = [a \in AppSet |-> 1]
    /\ browseCalls = [p \in AllPaths |-> 0]
    /\ fileWrites = [p \in AllPaths |-> 0]
    /\ runCalls = [list |-> 2, listFailed |-> 0]
    /\ runBrowsed = <<>>
    /\ runFetch = Empty
    /\ runWrites = <<>>
    /\ cleanStart = TRUE
    /\ completed = 0

\* The mapper of the inner pMap on an index of up to MaxRecords records.
RecordsBrowse ==
    /\ pc = "pair"
    /\ PairPath \notin DOMAIN files
    /\ Browse(RecordHits)

RecordsNext ==
    \/ RecordsBrowse
    \/ Browsing
    \/ PairSettled

\* The download of one index from both applications.
SpecRecords == RecordsInit /\ [][RecordsNext]_vars

\* -------------------------------------- getIndicesWithDifferences on its own

\* The lists downloadIndexList may return: of any of four indices, of any size.
DifferenceLists ==
    {IndexData(answer) :
        answer \in ResponsesOf({Item(n, d) : n \in IndexNames \cup {<<"c">>},
                                               d \in DataSizes}, MaxList)}

\* The process after downloadIndexList has returned a list for each
\* application.
DifferencesInit ==
    /\ pc = "differences"
    /\ run = 1
    /\ client = [a \in AppSet |-> TRUE]
    /\ lists \in [AppSet -> DifferenceLists]
    /\ appFiles = [a \in AppSet |-> JsonFile(lists[a])]
    /\ response = NoResponse
    /\ indices = <<>>
    /\ i = 1
    /\ j = 1
    /\ browser = NoBrowser
    /\ result = <<>>
    /\ promise = NoPromise
    /\ report = NoReport
    /\ files = Empty
    /\ listInvocations = [a \in AppSet |-> 1]
    /\ listCalls = [a \in AppSet |-> 1]
    /\ listFailures = [a \in AppSet |-> 0]
    /\ appWrites = [a \in AppSet |-> 1]
    /\ browseCalls = [p \in AllPaths |-> 0]
    /\ fileWrites = [p \in AllPaths |-> 0]
    /\ runCalls = [list |-> 2, listFailed |-> 0]
    /\ runBrowsed = <<>>
    /\ runFetch = Empty
    /\ runWrites = <<>>
    /\ cleanStart = TRUE
    /\ completed = 0

DifferencesNext == Differences

\* The comparison of two lists.
SpecDifferences == DifferencesInit /\ [][DifferencesNext]_vars

\* ------------------------------------------ the files of one index, by name

\* Longest name of an index made of letters and dashes in the specification
\* of the paths.
MaxName == 3

\* The names of the index there: every name of letters and dashes, and names
\* that hold the name of an application.
PathNames ==
    (SeqsUpTo({"a", "-"}, MaxName) \ {<<>>})
        \cup {Mesos, <<"a", "-">> \o Kubernetes}

\* The process after its lists: one index, of one of the names, has a size on
\* mesos and another on kubernetes, and nothing is downloaded yet.
PathsInit ==
    /\ pc = "pair"
    /\ run = 1
    /\ client = [a \in AppSet |-> TRUE]
    /\ \E name \in PathNames :
           /\ lists = [a \in AppSet |->
                          IndexData(<<Item(name, IF a = Mesos THEN 1 ELSE 2)>>)]
           /\ indices = <<name>>
    /\ appFiles = [a \in AppSet |-> JsonFile(lists[a])]
    /\ response = NoResponse
    /\ i = 1
    /\ j = 1
    /\ browser = NoBrowser
    /\ result = <<>>
    /\ promise = NoPromise
    /\ report = NoReport
    /\ files = Empty
    /\ listInvocations = [a \in AppSet |-> 1]
    /\ listCalls = [a \in AppSet |-> 1]
    /\ listFailures = [a \in AppSet |-> 0]
    /\ appWrites = [a \in AppSet |-> 1]
    /\ browseCalls = [p \in {FilePath(n, a) : n \in PathNames, a \in AppSet} |-> 0]
    /\ fileWrites = [p \in {FilePath(n, a) : n \in PathNames, a \in AppSet} |-> 0]
    /\ runCalls = [list |-> 2, listFailed |-> 0]
    /\ runBrowsed = <<>>
    /\ runFetch = Empty
    /\ runWrites = <<>>
    /\ cleanStart = TRUE
    /\ completed = 0

PathsNext ==
    \/ PairBrowse
    \/ Browsing
    \/ PairSettled
    \/ Report

\* The download of one index from both applications, and the report.
SpecPaths == PathsInit /\ [][PathsNext]_vars

\* ---------------------------------------------------------------- claims

\* Number of places of a sequence that hold x.
Count(seq, x) == Cardinality({n \in 1..Len(seq) : seq[n] = x})

\* Two sequences hold the same elements the same number of times.
IsPermutation(a, b) ==
    /\ Len(a) = Len(b)
    /\ \A x \in Range(a) \cup Range(b) : Count(a, x) = Count(b, x)

\* The pairs of the run: every index with a difference, on every application.
RunPaths == {FilePath(indices[k], a) : k \in 1..Len(indices), a \in AppSet}

\* The download of the run has gone through all its pairs.
Downloaded == pc \in {"report", "done"}

\* The file of a path is what the end of its getRecordsFromIndex of this run
\* asks for: the hits without objectID in some order, or the error marker.
ArtifactOfFetch(path) ==
    IF runFetch[path].ok
    THEN /\ files[path].kind = "json"
         /\ IsPermutation(files[path].value,
                          [n \in 1..Len(runFetch[path].hits) |->
                               OmitObjectID(runFetch[path].hits[n])])
    ELSE /\ files[path].kind = "text"
         /\ files[path].text = ErrorPrefix \o runFetch[path].message

\* One step of the download of the pairs.
PairStep == PairCached \/ PairBrowse \/ Browsing \/ PairSettled

\* C1: a record fetch that fails does not abort the batch: while pairs are
\* left the download can go on and it never ends in an abort; once through,
\* every pair of the run has its file, the error marker 'ERROR: <message>' for
\* a pair whose fetch failed and the records without objectID for a pair whose
\* fetch ended.
C1_PairIsolation ==
    /\ pc \in {"pair", "browsing", "settled"} => ENABLED PairStep
    /\ runBrowsed # <<>> => pc # "aborted"
    /\ Downloaded =>
           /\ RunPaths \subseteq DOMAIN files
           /\ Range(runBrowsed) = DOMAIN runFetch
           /\ \A path \in DOMAIN runFetch : ArtifactOfFetch(path)

\* C1 witness: a run went through two indices, the fetch of its first pair
\* failed, and a later pair has its record written.
C1_Witness ==
    /\ pc = "done"
    /\ Len(runWrites) = 4
    /\ ~runFetch[runWrites[1]].ok
    /\ runFetch[runWrites[2]].ok
    /\ \E n \in 2..4 : /\ runFetch[runWrites[n]].ok
                       /\ Len(runFetch[runWrites[n]].hits) > 0

\* The process has the list of the application in hand.
Returned(a) ==
    /\ pc \notin {"idle", "aborted", "killed", "listMesos"}
    /\ a = Kubernetes => pc # "listKubernetes"

\* C2: after a first call of downloadIndexList that wrote the list of an
\* application, listIndexes was called once for it, however many calls of
\* downloadIndexList followed; a call that finds the file returns what the
\* file holds, calls nothing and writes nothing, and the file stays as the
\* first call wrote it.
C2_IdempotentCaching ==
    /\ [](\A a \in AppSet :
            /\ (listInvocations[a] >= 1 /\ listFailures[a] = 0) =>
                   /\ a \in DOMAIN appFiles
                   /\ listCalls[a] = 1
                   /\ appWrites[a] = 1
            /\ a \in DOMAIN appFiles =>
                   /\ listCalls[a] = listFailures[a] + 1
                   /\ appWrites[a] = 1
            /\ Returned(a) =>
                   /\ a \in DOMAIN appFiles
                   /\ lists[a] = appFiles[a].value)
    /\ [][\A a \in AppSet :
            a \in DOMAIN appFiles =>
                /\ a \in DOMAIN appFiles'
                /\ appFiles'[a] = appFiles[a]
                /\ listCalls'[a] = listCalls[a]
                /\ appWrites'[a] = appWrites[a]]_vars

\* C2 witness: a second call of downloadIndexList returned a list of two
\* indices, after one call of listIndexes.
C2_Witness ==
    /\ listInvocations[Mesos] = 2
    /\ listCalls[Mesos] = 1
    /\ Returned(Mesos)
    /\ Len(lists[Mesos]) = 2

\* Runs that printed their report before this one.
CompletedBefore == IF pc = "done" THEN completed - 1 ELSE completed

\* C3: a run that starts with no downloaded file and goes through N indices
\* writes 2N files, one per pair, at <indexName>-<appName>; a run that
\* follows a run gone to its end calls neither listIndexes nor browseAll and
\* writes nothing.
C3_WritesThenNone ==
    /\ (cleanStart /\ Downloaded) =>
           /\ Len(runWrites) = 2 * Len(indices)
           /\ DOMAIN files = RunPaths
           /\ \A path \in RunPaths : Count(runWrites, path) = 1
    /\ CompletedBefore >= 1 =>
           /\ runCalls.list = 0
           /\ runBrowsed = <<>>
           /\ runWrites = <<>>
           /\ \A a \in AppSet : appWrites[a] = 1
           /\ \A path \in AllPaths : fileWrites[path] <= 1 /\ browseCalls[path] <= 1

\* C3 witness: the second run over two indices has gone to its end; the first
\* one wrote the four files.
C3_Witness ==
    /\ pc = "done"
    /\ completed = 2
    /\ Len(indices) = 2
    /\ \A path \in RunPaths : fileWrites[path] = 1 /\ browseCalls[path] = 1

\* The names and sizes of a list of indices.
NamesOf(list) == {list[n].name : n \in 1..Len(list)}
SizeIn(list, name) == (CHOOSE index \in Range(list) : index.name = name).dataSize

\* C4: getIndicesWithDifferences returns the names of the list of mesos that
\* the list of kubernetes lacks or gives another dataSize, and no other name:
\* no name of kubernetes alone, no name of equal dataSize.
C4_Differences ==
    pc \in {"pair", "report"} =>
        Range(indices) =
            {name \in NamesOf(lists[Mesos]) :
                \/ name \notin NamesOf(lists[Kubernetes])
                \/ SizeIn(lists[Kubernetes], name) # SizeIn(lists[Mesos], name)}

\* C4 witness: of the two indices of mesos one has the same size on
\* kubernetes and one is not there, and kubernetes has an index of its own.
C4_Witness ==
    /\ pc = "pair"
    /\ Len(indices) = 1
    /\ Len(lists[Mesos]) = 2
    /\ indices[1] \notin NamesOf(lists[Kubernetes])
    /\ NamesOf(lists[Kubernetes]) \ NamesOf(lists[Mesos]) # {}
    /\ \E name \in NamesOf(lists[Mesos]) \cap NamesOf(lists[Kubernetes]) :
           SizeIn(lists[Kubernetes], name) = SizeIn(lists[Mesos], name)

\* C5: two downloads that received the same records, in whatever order, wrote
\* the same sequence.
C5_OrderIndependent ==
    \A p, q \in DOMAIN runFetch :
        ( /\ runFetch[p].ok
          /\ runFetch[q].ok
          /\ IsPermutation(runFetch[p].hits, runFetch[q].hits) )
        => files[p] = files[q]

\* The sizes of the two files of an index.
KubernetesSize(name) == FileSize(files[FilePath(name, Kubernetes)])
MesosSize(name) == FileSize(files[FilePath(name, Mesos)])

\* C6: the report names no index whose two files have the same size, and
\* names every index whose kubernetes file has 100 bytes or more and whose
\* mesos file has another size.
C6_SizeEqualExcluded ==
    report.printed =>
        /\ \A name \in report.diff : KubernetesSize(name) # MesosSize(name)
        /\ \A k \in 1..Len(indices) :
               ( /\ KubernetesSize(indices[k]) >= MinSize
                 /\ KubernetesSize(indices[k]) # MesosSize(indices[k]) )
               => indices[k] \in report.diff

\* C7: the report names no index whose kubernetes file is smaller than 100
\* bytes.
C7_Threshold ==
    report.printed =>
        \A name \in report.diff : KubernetesSize(name) >= MinSize

\* C7 witness: a report that names one index and leaves out another, whose
\* kubernetes file is small and whose mesos file is not.
C7_Witness ==
    /\ report.printed
    /\ Len(indices) = 2
    /\ Cardinality(report.diff) = 1
    /\ \E k \in 1..2 :
           /\ indices[k] \notin report.diff
           /\ KubernetesSize(indices[k]) < MinSize
           /\ MesosSize(indices[k]) >= MinSize

\* C8: the report names no index of which one file is an error marker.
C8_ErrorsExcluded ==
    report.printed =>
        \A name \in report.diff :
            \A a \in AppSet : files[FilePath(name, a)].kind # "text"

\* C9: a listIndexes that fails ends the run: the error leaves
\* downloadIndicesWithDifferences, the list of that application is not
\* written, browseAll is not called, no file is written, nothing is printed.
C9_ListFailureFatal ==
    runCalls.listFailed >= 1 =>
        /\ pc = "aborted"
        /\ runCalls.listFailed = 1
        /\ \E a \in AppSet :
               /\ a \notin DOMAIN appFiles
               /\ appWrites[a] = 0
               /\ listFailures[a] >= 1
               /\ \A b \in AppSet \ {a} : listFailures[b] = 0 \/ b \in DOMAIN appFiles
        /\ runBrowsed = <<>>
        /\ runWrites = <<>>
        /\ indices = <<>>
        /\ browser = NoBrowser
        /\ ~report.printed

\* C9 witness: listIndexes failed for kubernetes after the list of mesos, of
\* two indices, was written.
C9_Witness ==
    /\ pc = "aborted"
    /\ runCalls = [list |-> 2, listFailed |-> 1]
    /\ Mesos \in DOMAIN appFiles
    /\ Len(appFiles[Mesos].value) = 2
    /\ Kubernetes \notin DOMAIN appFiles

WithoutObjectID(hits) ==
    [n \in 1..Len(hits) |->
         [f \in (DOMAIN hits[n]) \ {"objectID"} |-> hits[n][f]]]

\* C11: every page the stream delivers is added to the hits gathered, none is
\* lost; the sequence getRecordsFromIndex resolves with has as many records as
\* the stream delivered, none of them has an objectID, and they are the
\* delivered records without their objectID, each one once.
C11_IdentifierErased ==
    /\ [](promise.status = "resolved" =>
            /\ browser.state = "ended"
            /\ Len(promise.records) = Len(result)
            /\ \A n \in 1..Len(promise.records) :
                   "objectID" \notin DOMAIN promise.records[n]
            /\ IsPermutation(promise.records, WithoutObjectID(result)))
    /\ [][(pc = "browsing" /\ pc' \in {"browsing", "settled"}) =>
              /\ result' \o browser'.pending = result \o browser.pending
                     \/ browser'.state = "failed"
              /\ browser'.state = "ended" =>
                     result' = result /\ Len(browser.pending) = 0]_vars

\* C11 witness: getRecordsFromIndex has resolved with three records, which the
\* sort has put in another order than the stream delivered them.
C11_Witness ==
    /\ pc = "settled"
    /\ promise.status = "resolved"
    /\ Len(result) = 3
    /\ \A n \in 1..3 : "objectID" \in DOMAIN result[n]
    /\ promise.records # WithoutObjectID(result)

\* A list of indices names no temporary index.
NoTemporary(list) ==
    \A n \in 1..Len(list) : ~EndsWith(list[n].name, TmpSuffix)

\* The paths of the files of the temporary indices.
TemporaryPaths ==
    {FilePath(name, a) : name \in {n \in IndexNames : EndsWith(n, TmpSuffix)},
                         a \in AppSet}

\* C12: whatever listIndexes answers, no list written, no list returned by
\* downloadIndexList, no index with a difference and no file downloaded or
\* asked for is of an index whose name ends with '_tmp'.
C12_NoTemporary ==
    /\ \A a \in DOMAIN appFiles : NoTemporary(appFiles[a].value)
    /\ \A a \in AppSet : NoTemporary(lists[a])
    /\ \A k \in 1..Len(indices) : ~EndsWith(indices[k], TmpSuffix)
    /\ DOMAIN files \cap TemporaryPaths = {}
    /\ \A path \in DOMAIN files : ~EndsWith(ParsePath(path).indexName, TmpSuffix)
    /\ \A path \in TemporaryPaths : browseCalls[path] = 0

\* C12 witness: listIndexes named a temporary index next to another for both
\* applications, and the lists written and returned hold the other only.
C12_Witness ==
    /\ pc = "differences"
    /\ \A a \in AppSet :
           /\ Len(response[a]) = 2
           /\ \E n \in 1..2 : EndsWith(response[a][n].name, TmpSuffix)
           /\ a \in DOMAIN appFiles
           /\ Len(appFiles[a].value) = 1
           /\ lists[a] = appFiles[a].value
    /\ lists[Mesos] # lists[Kubernetes]

\* The pairs of the run in the order of the two pMap: index by index, and for
\* one index mesos, then kubernetes.
PairOrder ==
    [k \in 1..(2 * Len(indices)) |->
         FilePath(indices[(k + 1) \div 2], IF k % 2 = 1 THEN Mesos ELSE Kubernetes)]

\* The place of a path in a sequence of paths that holds it once.
Place(paths, path) == CHOOSE k \in 1..Len(paths) : paths[k] = path

\* A sequence of paths holds pairs of the run, in their order.
InPairOrder(paths) ==
    /\ Range(paths) \subseteq Range(PairOrder)
    /\ \A m, n \in 1..Len(paths) :
           m < n => Place(PairOrder, paths[m]) < Place(PairOrder, paths[n])

\* The pairs whose fetch has started and whose file is not written yet.
InFlight == {path \in Range(runBrowsed) : path \notin DOMAIN runFetch}

\* C13: at most one fetch is in flight, the one of the pair at hand; while the
\* mapper is at a pair every pair before it in the order of the pMap has its
\* file; browseAll is called, and the files are written, in that order.
C13_Serialized ==
    /\ Cardinality(InFlight) <= 1
    /\ InFlight # {} <=> pc \in {"browsing", "settled"}
    /\ browser.state = "open" => pc = "browsing"
    /\ pc \in {"pair", "browsing", "settled"} =>
           /\ InFlight \subseteq {PairPath}
           /\ PairPath = PairOrder[2 * (i - 1) + j]
           /\ \A k \in 1..(2 * (i - 1) + j - 1) : PairOrder[k] \in DOMAIN files
           /\ PairPath \in InFlight => PairPath \notin DOMAIN files
    /\ InPairOrder(runBrowsed)
    /\ InPairOrder(runWrites)
    /\ Downloaded => Range(PairOrder) \subseteq DOMAIN files

\* C13 witness: the fetch of the last of four pairs is under way, after the
\* files of the three pairs before it were written, an error marker among
\* them.
C13_Witness ==
    /\ pc = "browsing"
    /\ Len(indices) = 2
    /\ i = 2
    /\ j = 2
    /\ runWrites = SubSeq(PairOrder, 1, 3)
    /\ runBrowsed = PairOrder
    /\ \E k \in 1..3 : files[PairOrder[k]].kind = "text"
    /\ Len(result) > 0

\* C14: a stream that fails, whatever pages it delivered before, rejects the
\* promise of getRecordsFromIndex, which then holds no record, and the file
\* written for the pair is the error marker with the message of the error;
\* records are written only after the stream has ended, and they are the ones
\* of all its pages.
C14_NoPartialResults ==
    /\ [](browser.state = "failed" =>
              (promise.status = "rejected" /\ promise.records = <<>>))
    /\ [](promise.status = "resolved" => browser.state = "ended")
    /\ [](\A path \in DOMAIN runFetch :
              files[path].kind = "json" <=> runFetch[path].ok)
    /\ [][pc = "settled" =>
              /\ browser.state = "failed" =>
                     files'[PairPath] = TextFile(ErrorPrefix \o promise.message)
              /\ files'[PairPath].kind = "json" =>
                     /\ browser.state = "ended"
                     /\ Len(browser.pending) = 0
                     /\ IsPermutation(files'[PairPath].value,
                                      WithoutObjectID(result))]_vars

\* C14 witness: the stream of kubernetes failed after two records were
\* delivered and the promise is rejected; the stream of mesos had failed too
\* and its file is the error marker.
C14_Witness ==
    /\ pc = "settled"
    /\ j = 2
    /\ browser.state = "failed"
    /\ Len(result) = 2
    /\ promise.status = "rejected"
    /\ files[FilePath(indices[i], Mesos)].kind = "text"
    /\ ~runFetch[FilePath(indices[i], Mesos)].ok

\* The key tuple of a record: its values at the nine paths of the sort,
\* undefined for a missing one.
KeyTuple(record) == [k \in 1..Len(SortKeys) |-> Get(record, SortKeys[k])]

\* A value of a key stands before another: numbers in their order, and a
\* missing value before or after all numbers.
Before(v, w, missingFirst) ==
    IF v = w THEN FALSE
    ELSE IF v = Undefined THEN missingFirst
    ELSE IF w = Undefined THEN ~missingFirst
    ELSE v < w

\* Lexicographic order of two key tuples.
LexLess(s, t, missingFirst) ==
    \E k \in 1..Len(s) :
        /\ Before(s[k], t[k], missingFirst)
        /\ \A m \in 1..(k - 1) : s[m] = t[m]

\* The records of a sequence that have the key tuple of the given record, in
\* their order.
SameKeys(records, record) ==
    LET Test(r) == KeyTuple(r) = KeyTuple(record)
    IN  SelectSeq(records, Test)

\* A resolved sequence never has a record after one with a larger key tuple.
Ascending(missingFirst) ==
    promise.status = "resolved" =>
        \A m, n \in 1..Len(promise.records) :
            m < n => ~LexLess(KeyTuple(promise.records[n]),
                              KeyTuple(promise.records[m]), missingFirst)

\* The records of a resolved sequence with the same key tuple are in the order
\* of their arrival.
Stable ==
    promise.status = "resolved" =>
        \A n \in 1..Len(promise.records) :
            SameKeys(promise.records, promise.records[n]) =
                SameKeys(WithoutObjectID(result), promise.records[n])

\* C15 as claimed: the sequence getRecordsFromIndex resolves with is in
\* ascending order of the key tuple, a record without a key field before the
\* records that have it, and records with the same key tuple in the order of
\* their arrival.
C15_MissingFirst ==
    /\ Ascending(TRUE)
    /\ Stable

\* C15 as amended: the sequence getRecordsFromIndex resolves with is in
\* ascending order of the key tuple, a record without a key field after the
\* records that have it, and records with the same key tuple in the order of
\* their arrival.
C15_MissingLast ==
    /\ Ascending(FALSE)
    /\ Stable

\* C15 witness: a record without url arrived first and is the last of the
\* resolved sequence, after two records with the same key tuple that kept the
\* order of their arrival, the one with the larger objectID first.
C15_Witness ==
    /\ promise.status = "resolved"
    /\ Len(result) = 3
    /\ "url" \notin DOMAIN result[1]
    /\ "url" \notin DOMAIN promise.records[3]
    /\ result[2].objectID > result[3].objectID
    /\ KeyTuple(result[2]) = KeyTuple(result[3])
    /\ promise.records = WithoutObjectID(<<result[2], result[3], result[1]>>)

\* No step removes or changes a file of ./dist/indices.
FilesKept ==
    \A path \in DOMAIN files :
        path \in DOMAIN files' /\ files'[path] = files[path]

\* A step that writes in ./dist/indices writes one file, the one of the pair
\* at hand, which was not there when this run tested for it before its call of
\* browseAll, and is not there now.
WritesWhereAbsent ==
    files' # files =>
        /\ PairPath \notin DOMAIN files
        /\ DOMAIN files' = DOMAIN files \cup {PairPath}
        /\ runBrowsed # <<>>
        /\ Last(runBrowsed) = PairPath
        /\ fileWrites[PairPath] = 0

\* No step calls browseAll for a pair that has its file.
NoFetchOverFile ==
    \A path \in DOMAIN files : browseCalls'[path] = browseCalls[path]

\* Every file was written once, and no run calls browseAll twice for a pair.
WrittenOnce ==
    \A path \in AllPaths :
        /\ fileWrites[path] = IF path \in DOMAIN files THEN 1 ELSE 0
        /\ Count(runBrowsed, path) <= 1
        /\ browseCalls[path] <= run

\* C16 as claimed: a file is written only where none was at the test of the
\* pair, no file is ever written over or changed, and over all the runs, the
\* ones that were killed too, browseAll is called at most once for a pair.
C16_OneFetchEver ==
    /\ [](WrittenOnce /\ \A path \in AllPaths : browseCalls[path] <= 1)
    /\ [][FilesKept /\ WritesWhereAbsent /\ NoFetchOverFile]_vars

\* C16 as amended: a file is written only where none was at the test of the
\* pair, no file is ever written over or changed, and browseAll is never
\* called for a pair that has its file, nor twice for a pair in one run; a
\* pair whose run was killed before the write is fetched again.
C16_WriteOnce ==
    /\ []WrittenOnce
    /\ [][FilesKept /\ WritesWhereAbsent /\ NoFetchOverFile]_vars

\* C16 witness: the second run has written the file of a pair it fetched,
\* which the first run, killed before the write, had fetched too; another file
\* is of the first run.
C16_Witness ==
    /\ run = 2
    /\ \E p, q \in DOMAIN files :
           /\ browseCalls[p] = 2
           /\ fileWrites[p] = 1
           /\ p \in Range(runWrites)
           /\ q \notin Range(runWrites)
           /\ browseCalls[q] = 1

\* C17: in every state, of a run that was killed between two pairs too, an
\* index that has its kubernetes file has its mesos file; the statSync of
\* getDifferentIndices find their files and a run ends without a report only
\* when it was killed or when listIndexes failed.
C17_MesosBeforeKubernetes ==
    /\ \A name \in IndexNames :
           FilePath(name, Kubernetes) \in DOMAIN files
               => FilePath(name, Mesos) \in DOMAIN files
    /\ \A name \in NamesOfType(DOMAIN files, Kubernetes) :
           FilePath(name, Mesos) \in DOMAIN files
    /\ ~StatThrows(files)
    /\ pc = "aborted" => runCalls.listFailed = 1
    /\ pc = "done" => report.printed

\* C17 witness: the second run has printed a report that names an index whose
\* mesos file is of the first run, killed before the kubernetes file of that
\* index, which the second run wrote.
C17_Witness ==
    /\ run = 2
    /\ pc = "done"
    /\ \E name \in report.diff :
           /\ FilePath(name, Mesos) \notin Range(runWrites)
           /\ FilePath(name, Kubernetes) \in Range(runWrites)

\* C18: the file name written for an index and an application, split as
\* getDifferentIndices splits it, gives back that application as the type and
\* that name as the name of the index, dashes in the name or not; so every
\* file written is put in the group of its application under the name of its
\* index, and the report names indices of the run only.
C18_PathRoundTrip ==
    /\ \A name \in PathNames, a \in AppSet :
           ParsePath(FilePath(name, a)) = [type |-> a, indexName |-> name]
    /\ \A path \in DOMAIN files :
           /\ ParsePath(path).type \in AppSet
           /\ ParsePath(path).indexName \in Range(indices)
           /\ path = FilePath(ParsePath(path).indexName, ParsePath(path).type)
    /\ \A a \in AppSet :
           NamesOfType(DOMAIN files, a) =
               {name \in Range(indices) : FilePath(name, a) \in DOMAIN files}
    /\ pc # "aborted"
    /\ report.printed => report.diff \subseteq Range(indices)

\* C18 witness: the report names an index whose name has two dashes, after
\* the files of both applications were written for it.
C18_Witness ==
    /\ report.printed
    /\ \E name \in report.diff :
           /\ Len(Split(name, "-")) = 3
           /\ \A a \in AppSet : FilePath(name, a) \in DOMAIN files
           /\ NamesOfType(DOMAIN files, Kubernetes) = {name}
           /\ NamesOfType(DOMAIN files, Mesos) = {name}

====
